---- MODULE Spec2Model ----
(***************************************************************************)
(* Model of cmd/internal/config/config.go of utahfs: the composition of    *)
(* the storage stack by Client.FS and the backend selection by             *)
(* StorageProvider.Store.  The constructors of package persistent and of   *)
(* package utahfs are external to this file; each either fails (chosen by  *)
(* the environment through the set `failing`) or wraps the handle it is    *)
(* given.                                                                  *)
(***************************************************************************)
EXTENDS Integers, Sequences, FiniteSets, TLC

VARIABLES cfg, before, ret, runs, op, buf, cache, wal, stored, pins,
          written, plain, rd

\* What a handle and its stores hold of each block.
io == <<buf, cache, wal, stored, pins, written, plain>>

vars == <<cfg, before, ret, runs, op, buf, cache, wal, stored, pins,
          written, plain, rd>>

\* ------------------------------------------------------------------ bounds
MaxRuns == 2
MaxFailures == 1
BlockLen == 1
ByteMod == 2
MaxRetry == 2

\* ------------------------------------------------------- program constants
DefaultMaxWALSize == 64 * 512
DefaultCacheSize == 32 * 1024
CacheDisabled == 0 - 1
DefaultNumPtrs == 12
DefaultDataSize == 32 * 1024

\* ------------------------------------------------------------ basic values
\* A Go nil pointer / nil interface is the empty sequence; a handle is the
\* sequence of its layers, outermost first.
Nil == <<>>
\* A Go nil error.
NoErr == <<>>
ErrNoProvider == <<"error", "no object storage provider defined">>
ErrAmbiguous == <<"error", "only one object storage provider may be defined">>
ErrNoPassword == <<"error", "no password given for encryption">>
\* The error an external constructor returns when it fails.
CtorErr(fn) == <<"error", fn>>

Ctors == {"NewB2", "NewS3", "NewRetry", "NewLocalWAL", "NewCache",
          "WithIntegrity", "WithEncryption", "NewBlockFilesystem"}

\* ------------------------------------------------------------------- paths
\* A path is the sequence of the elements between its slashes; an absolute
\* path starts with the element "/", the empty string is the empty sequence,
\* and an empty element "" stands for a doubled or trailing slash.
EmptyPath == <<>>

IsAbs(p) == Len(p) > 0 /\ p[1] = "/"

\* One pass of path.Clean over the elements: "" and "." are dropped, ".."
\* removes the element before it, is dropped at the root and is kept at the
\* start of a relative path.
RECURSIVE CleanElems(_, _, _)
CleanElems(elems, abs, out) ==
  IF elems = <<>> THEN out
  ELSE LET e == Head(elems)
           rest == Tail(elems)
       IN IF e = "" \/ e = "." \/ e = "/" THEN CleanElems(rest, abs, out)
          ELSE IF e = ".."
          THEN IF Len(out) > 0 /\ out[Len(out)] # ".."
               THEN CleanElems(rest, abs, SubSeq(out, 1, Len(out) - 1))
               ELSE IF abs THEN CleanElems(rest, abs, out)
               ELSE CleanElems(rest, abs, Append(out, ".."))
          ELSE CleanElems(rest, abs, Append(out, e))

\* path.Clean: the shortest equivalent path; "." for the empty path.
Clean(p) ==
  LET out == CleanElems(p, IsAbs(p), <<>>)
  IN IF IsAbs(p) THEN <<"/">> \o out
     ELSE IF out = <<>> THEN <<".">>
     ELSE out

\* path.Dir: the path up to its last slash, cleaned.
Dir(p) ==
  IF Len(p) = 0 THEN Clean(<<>>)
  ELSE IF p = <<"/">> THEN Clean(p)
  ELSE Clean(SubSeq(p, 1, Len(p) - 1))

\* path.Join of a directory and one non-empty file name: the two joined by
\* a slash (an empty directory is ignored) and cleaned.
Join(d, name) == Clean(Append(d, name))

\* --------------------------------------------------- external constructors
\* One invocation of an external constructor, as the log records it.
Invocation(fn, inner, strs, ns, p, failing) ==
  [fn |-> fn, inner |-> inner, strs |-> strs, ns |-> ns, path |-> p,
   ok |-> fn \notin failing]

\* Result of an external constructor: the wrapped handle or its error.
Construct(fn, layer, inner, failing) ==
  IF fn \in failing THEN [out |-> Nil, err |-> CtorErr(fn)]
  ELSE [out |-> <<layer>> \o inner, err |-> NoErr]

NewB2(acctId, appKey, bucket, url, failing) ==
  Construct("NewB2", "b2", <<>>, failing)
NewS3(appId, appKey, bucket, url, region, failing) ==
  Construct("NewS3", "s3", <<>>, failing)
NewRetry(base, attempts, failing) ==
  Construct("NewRetry", "retry", base, failing)
NewLocalWAL(base, loc, maxSize, failing) ==
  Construct("NewLocalWAL", "wal", base, failing)
NewCache(base, size, failing) ==
  Construct("NewCache", "cache", base, failing)
NewBufferedStorage(base) == <<"buffered">> \o base
NewSimpleBlock(base) == <<"block">> \o base
WithIntegrity(base, password, pinFile, failing) ==
  Construct("WithIntegrity", "integrity", base, failing)
WithEncryption(base, password, failing) ==
  Construct("WithEncryption", "encryption", base, failing)
NewAppStorage(base) == <<"app">> \o base
NewBlockFilesystem(store, numPtrs, dataSize, failing) ==
  Construct("NewBlockFilesystem", "fs", store, failing)

\* ------------------------------------------------------- StorageProvider
hasB2(sp) ==
  sp.B2AcctId # "" \/ sp.B2AppKey # "" \/ sp.B2Bucket # "" \/ sp.B2Url # ""

\* Variant: the region field is forgotten.
hasS3_NoRegion(sp) ==
  sp.S3AppId # "" \/ sp.S3AppKey # "" \/ sp.S3Bucket # "" \/ sp.S3Url # ""

hasS3(sp) ==
  sp.S3AppId # "" \/ sp.S3AppKey # "" \/ sp.S3Bucket # "" \/ sp.S3Url # ""
    \/ sp.S3Region # ""

\* Connect to either B2 or S3 (lines 135-147).
Connect(sp, failing) ==
  IF hasB2(sp)
  THEN LET r == NewB2(sp.B2AcctId, sp.B2AppKey, sp.B2Bucket, sp.B2Url, failing)
       IN [out |-> r.out, err |-> r.err,
           calls |-> <<Invocation("NewB2", Nil,
                        <<sp.B2AcctId, sp.B2AppKey, sp.B2Bucket, sp.B2Url>>,
                        <<>>, EmptyPath, failing)>>]
  ELSE IF hasS3(sp)
  THEN LET r == NewS3(sp.S3AppId, sp.S3AppKey, sp.S3Bucket, sp.S3Url,
                      sp.S3Region, failing)
       IN [out |-> r.out, err |-> r.err,
           calls |-> <<Invocation("NewS3", Nil,
                        <<sp.S3AppId, sp.S3AppKey, sp.S3Bucket, sp.S3Url,
                          sp.S3Region>>, <<>>, EmptyPath, failing)>>]
  ELSE [out |-> Nil, err |-> NoErr, calls |-> <<>>]

\* Variant: the retry bound is compared with >= 1.
ConfigureRetry_OffByOne(sp, conn, failing) ==
  IF sp.Retry >= 1
  THEN LET r == NewRetry(conn.out, sp.Retry, failing)
           log == Append(conn.calls,
                    Invocation("NewRetry", conn.out, <<>>, <<sp.Retry>>,
                               EmptyPath, failing))
       IN IF r.err # NoErr
          THEN [out |-> Nil, err |-> r.err, calls |-> log]
          ELSE [out |-> r.out, err |-> NoErr, calls |-> log]
  ELSE [out |-> conn.out, err |-> NoErr, calls |-> conn.calls]

\* Configure retries if the user wants (lines 149-157).
ConfigureRetry(sp, conn, failing) ==
  IF sp.Retry > 1
  THEN LET r == NewRetry(conn.out, sp.Retry, failing)
           log == Append(conn.calls,
                    Invocation("NewRetry", conn.out, <<>>, <<sp.Retry>>,
                               EmptyPath, failing))
       IN IF r.err # NoErr
          THEN [out |-> Nil, err |-> r.err, calls |-> log]
          ELSE [out |-> r.out, err |-> NoErr, calls |-> log]
  ELSE [out |-> conn.out, err |-> NoErr, calls |-> conn.calls]

\* Variant: only a nil record is rejected as "no provider".
Store_NoEmptyCheck(p, failing) ==
  IF p = Nil
  THEN [out |-> Nil, err |-> ErrNoProvider, calls |-> <<>>]
  ELSE IF hasB2(p[1]) /\ hasS3(p[1])
  THEN [out |-> Nil, err |-> ErrAmbiguous, calls |-> <<>>]
  ELSE LET conn == Connect(p[1], failing)
       IN IF conn.err # NoErr
          THEN [out |-> Nil, err |-> conn.err, calls |-> conn.calls]
          ELSE ConfigureRetry(p[1], conn, failing)

\* StorageProvider.Store on the pointer p: <<>> for nil, <<record>> otherwise.
Store(p, failing) ==
  IF p = Nil \/ (~hasB2(p[1]) /\ ~hasS3(p[1]))
  THEN [out |-> Nil, err |-> ErrNoProvider, calls |-> <<>>]
  ELSE IF hasB2(p[1]) /\ hasS3(p[1])
  THEN [out |-> Nil, err |-> ErrAmbiguous, calls |-> <<>>]
  ELSE LET conn == Connect(p[1], failing)
       IN IF conn.err # NoErr
          THEN [out |-> Nil, err |-> conn.err, calls |-> conn.calls]
          ELSE ConfigureRetry(p[1], conn, failing)

\* ------------------------------------------------------------- Client.FS
\* The steps of Client.FS thread a record st: the configuration c (mutated
\* in place), the handle h built so far, the log of external constructor
\* invocations and the error; a step after an early return does nothing.

\* Variant: the data directory is derived from the mount path every time.
SetupStore_AlwaysDefault(c, mountPath, failing) ==
  LET c1 == [c EXCEPT !.DataDir = Join(Dir(mountPath), ".utahfs")]
      r == Store(c1.StorageProvider, failing)
  IN [c |-> c1, h |-> r.out, calls |-> r.calls, err |-> r.err]

\* Lines 40-48: data directory default and object storage.
SetupStore(c, mountPath, failing) ==
  LET c1 == IF c.DataDir = EmptyPath
            THEN [c EXCEPT !.DataDir = Join(Dir(mountPath), ".utahfs")]
            ELSE c
      r == Store(c1.StorageProvider, failing)
  IN [c |-> c1, h |-> r.out, calls |-> r.calls, err |-> r.err]

\* Variant: the error of NewLocalWAL is dropped and composition goes on.
SetupWAL_IgnoreError(st, failing) ==
  IF st.err # NoErr THEN st
  ELSE LET c1 == IF st.c.MaxWALSize = 0
                 THEN [st.c EXCEPT !.MaxWALSize = DefaultMaxWALSize]
                 ELSE st.c
           loc == Join(c1.DataDir, "wal")
           r == NewLocalWAL(st.h, loc, c1.MaxWALSize, failing)
       IN [c |-> c1, h |-> r.out, err |-> NoErr,
           calls |-> Append(st.calls,
                       Invocation("NewLocalWAL", st.h, <<>>,
                                  <<c1.MaxWALSize>>, loc, failing))]

\* Lines 50-57: the local WAL.
SetupWAL(st, failing) ==
  IF st.err # NoErr THEN st
  ELSE LET c1 == IF st.c.MaxWALSize = 0
                 THEN [st.c EXCEPT !.MaxWALSize = DefaultMaxWALSize]
                 ELSE st.c
           loc == Join(c1.DataDir, "wal")
           r == NewLocalWAL(st.h, loc, c1.MaxWALSize, failing)
       IN [c |-> c1, h |-> r.out, err |-> r.err,
           calls |-> Append(st.calls,
                       Invocation("NewLocalWAL", st.h, <<>>,
                                  <<c1.MaxWALSize>>, loc, failing))]

\* Variant: a cache size of 0 is not replaced by the default.
SetupCache_NoDefault(st, failing) ==
  IF st.err # NoErr THEN st
  ELSE IF st.c.CacheSize # CacheDisabled
  THEN LET r == NewCache(st.h, st.c.CacheSize, failing)
       IN [c |-> st.c, h |-> r.out, err |-> r.err,
           calls |-> Append(st.calls,
                       Invocation("NewCache", st.h, <<>>,
                                  <<st.c.CacheSize>>, EmptyPath, failing))]
  ELSE st

\* Lines 59-68: caching if desired.
SetupCache(st, failing) ==
  IF st.err # NoErr THEN st
  ELSE LET c1 == IF st.c.CacheSize = 0
                 THEN [st.c EXCEPT !.CacheSize = DefaultCacheSize]
                 ELSE st.c
       IN IF c1.CacheSize # CacheDisabled
          THEN LET r == NewCache(st.h, c1.CacheSize, failing)
               IN [c |-> c1, h |-> r.out, err |-> r.err,
                   calls |-> Append(st.calls,
                               Invocation("NewCache", st.h, <<>>,
                                          <<c1.CacheSize>>, EmptyPath,
                                          failing))]
          ELSE [st EXCEPT !.c = c1]

\* Variant: the buffering layer is put on top of the block framer.
SetupBlock_Swapped(st) ==
  IF st.err # NoErr THEN st
  ELSE [st EXCEPT !.h = NewBufferedStorage(NewSimpleBlock(st.h))]

\* Lines 70-72: buffered block storage.
SetupBlock(st) ==
  IF st.err # NoErr THEN st
  ELSE [st EXCEPT !.h = NewSimpleBlock(NewBufferedStorage(st.h))]

\* Variant: the password is not checked.
SetupSecurity_NoCheck(st, failing) ==
  IF st.err # NoErr THEN st
  ELSE LET pin == Join(st.c.DataDir, "pin.json")
           i == WithIntegrity(st.h, st.c.Password, pin, failing)
           ilog == Append(st.calls,
                     Invocation("WithIntegrity", st.h, <<st.c.Password>>,
                                <<>>, pin, failing))
       IN IF i.err # NoErr
          THEN [st EXCEPT !.h = Nil, !.err = i.err, !.calls = ilog]
          ELSE LET e == WithEncryption(i.out, st.c.Password, failing)
               IN [st EXCEPT !.h = e.out, !.err = e.err,
                     !.calls = Append(ilog,
                                 Invocation("WithEncryption", i.out,
                                            <<st.c.Password>>, <<>>,
                                            EmptyPath, failing))]

\* Lines 74-85: encryption and integrity.
SetupSecurity(st, failing) ==
  IF st.err # NoErr THEN st
  ELSE IF st.c.Password = ""
  THEN [st EXCEPT !.h = Nil, !.err = ErrNoPassword]
  ELSE LET pin == Join(st.c.DataDir, "pin.json")
           i == WithIntegrity(st.h, st.c.Password, pin, failing)
           ilog == Append(st.calls,
                     Invocation("WithIntegrity", st.h, <<st.c.Password>>,
                                <<>>, pin, failing))
       IN IF i.err # NoErr
          THEN [st EXCEPT !.h = Nil, !.err = i.err, !.calls = ilog]
          ELSE LET e == WithEncryption(i.out, st.c.Password, failing)
               IN [st EXCEPT !.h = e.out, !.err = e.err,
                     !.calls = Append(ilog,
                                 Invocation("WithEncryption", i.out,
                                            <<st.c.Password>>, <<>>,
                                            EmptyPath, failing))]

\* Variant: the two defaults are exchanged.
SetupFilesystem_SwappedDefaults(st, failing) ==
  IF st.err # NoErr THEN st
  ELSE LET appStore == NewAppStorage(st.h)
           c1 == IF st.c.NumPtrs = 0
                 THEN [st.c EXCEPT !.NumPtrs = DefaultDataSize]
                 ELSE st.c
           c2 == IF c1.DataSize = 0
                 THEN [c1 EXCEPT !.DataSize = DefaultNumPtrs]
                 ELSE c1
           r == NewBlockFilesystem(appStore, c2.NumPtrs, c2.DataSize, failing)
       IN [c |-> c2, h |-> r.out, err |-> r.err,
           calls |-> Append(st.calls,
                       Invocation("NewBlockFilesystem", appStore, <<>>,
                                  <<c2.NumPtrs, c2.DataSize>>, EmptyPath,
                                  failing))]

\* Lines 87-100: application storage and the block-based filesystem.
SetupFilesystem(st, failing) ==
  IF st.err # NoErr THEN st
  ELSE LET appStore == NewAppStorage(st.h)
           c1 == IF st.c.NumPtrs = 0
                 THEN [st.c EXCEPT !.NumPtrs = DefaultNumPtrs]
                 ELSE st.c
           c2 == IF c1.DataSize = 0
                 THEN [c1 EXCEPT !.DataSize = DefaultDataSize]
                 ELSE c1
           r == NewBlockFilesystem(appStore, c2.NumPtrs, c2.DataSize, failing)
       IN [c |-> c2, h |-> r.out, err |-> r.err,
           calls |-> Append(st.calls,
                       Invocation("NewBlockFilesystem", appStore, <<>>,
                                  <<c2.NumPtrs, c2.DataSize>>, EmptyPath,
                                  failing))]

\* Client.FS: the configuration as the call leaves it, the returned handle
\* and error, and the constructors it invoked, in order.
FS(c, mountPath, failing) ==
  LET st == SetupFilesystem(
              SetupSecurity(
                SetupBlock(
                  SetupCache(
                    SetupWAL(SetupStore(c, mountPath, failing), failing),
                    failing)),
                failing),
              failing)
  IN [c |-> st.c, fs |-> IF st.err # NoErr THEN Nil ELSE st.h,
      err |-> st.err, calls |-> st.calls]

\* ---------------------------------------------------------- block access
\* What a composed handle does with a block, layer by layer.  The
\* encryption and integrity layers transform and check the bytes; the
\* buffering layer and the WAL hold a written block until it is flushed or
\* drained; the cache keeps the blocks that pass through it; reads are
\* served by the first layer that holds the block.
ErrIntegrityViolation == <<"error", "IntegrityViolation">>
ErrDecryptionFailed == <<"error", "DecryptionFailed">>
ErrNotFound == <<"error", "NotFound">>

\* The block addresses.
Addrs == {0}
Bytes == 0..(ByteMod - 1)
Blocks == [1..BlockLen -> Bytes]

RECURSIVE SumSeq(_)
SumSeq(q) == IF q = <<>> THEN 0 ELSE q[1] + SumSeq(Tail(q))

\* Key derived from the password.
DeriveKey(password) == IF password = "" THEN 0 ELSE 1

\* Authenticated encryption: the shifted payload followed by a tag.
Tag(k, body) == (SumSeq(body) + k) % ByteMod
Encrypt(k, bytes) ==
  LET body == [i \in 1..Len(bytes) |-> (bytes[i] + k) % ByteMod]
  IN Append(body, Tag(k, body))
Decrypt(k, ct) ==
  IF Len(ct) = 0 THEN [err |-> ErrDecryptionFailed, data |-> <<>>]
  ELSE LET body == SubSeq(ct, 1, Len(ct) - 1)
       IN IF ct[Len(ct)] # Tag(k, body)
          THEN [err |-> ErrDecryptionFailed, data |-> <<>>]
          ELSE [err |-> NoErr,
                data |-> [i \in 1..Len(body) |->
                            (body[i] + ByteMod - k) % ByteMod]]

\* Variant: the digest covers the length of the bytes, not their content.
Digest_LengthOnly(q) == Len(q) + 1

\* Tamper-evidence digest of the bytes it is given; collision free.
RECURSIVE Digest(_)
Digest(q) ==
  IF q = <<>> THEN 1
  ELSE Digest(SubSeq(q, 1, Len(q) - 1)) * ByteMod + q[Len(q)]

\* The layers beneath the layer called name.
RECURSIVE Below(_, _)
Below(name, layers) ==
  IF layers = <<>> THEN <<>>
  ELSE IF Head(layers) = name THEN Tail(layers)
  ELSE Below(name, Tail(layers))

IsBackend(layer) == layer \in {"b2", "s3"}

\* A write descends the chain, outermost layer first, until a layer holds
\* it back.  S is the record of what the layers and stores hold.
RECURSIVE WriteDown(_, _, _, _, _)
WriteDown(layers, k, addr, bytes, S) ==
  IF layers = <<>> THEN S
  ELSE LET l == Head(layers)
           rest == Tail(layers)
       IN IF l = "encryption"
          THEN WriteDown(rest, k, addr, Encrypt(k, bytes), S)
          ELSE IF l = "integrity"
          THEN WriteDown(rest, k, addr, bytes,
                         [S EXCEPT !.pins[addr] = Digest(bytes)])
          ELSE IF l = "buffered" THEN [S EXCEPT !.buf[addr] = bytes]
          ELSE IF l = "cache"
          THEN WriteDown(rest, k, addr, bytes,
                         [S EXCEPT !.cache[addr] = bytes])
          ELSE IF l = "wal" THEN [S EXCEPT !.wal[addr] = bytes]
          ELSE IF IsBackend(l)
          THEN [S EXCEPT !.stored[addr] = bytes, !.written[addr] = bytes]
          ELSE WriteDown(rest, k, addr, bytes, S)

\* A read descends to the first layer that holds the block and returns up
\* the chain; a cache that missed keeps what came from beneath it.
RECURSIVE ReadUp(_, _, _, _)
ReadUp(layers, k, addr, S) ==
  IF layers = <<>>
  THEN [err |-> ErrNotFound, data |-> <<>>, from |-> "", cache |-> S.cache]
  ELSE LET l == Head(layers)
           r == ReadUp(Tail(layers), k, addr, S)
       IN IF l = "buffered" /\ S.buf[addr] # <<>>
          THEN [err |-> NoErr, data |-> S.buf[addr], from |-> "buffered",
                cache |-> S.cache]
          ELSE IF l = "cache" /\ S.cache[addr] # <<>>
          THEN [err |-> NoErr, data |-> S.cache[addr], from |-> "cache",
                cache |-> S.cache]
          ELSE IF l = "wal" /\ S.wal[addr] # <<>>
          THEN [err |-> NoErr, data |-> S.wal[addr], from |-> "wal",
                cache |-> S.cache]
          ELSE IF IsBackend(l)
          THEN IF S.stored[addr] = <<>>
               THEN [err |-> ErrNotFound, data |-> <<>>, from |-> l,
                     cache |-> S.cache]
               ELSE [err |-> NoErr, data |-> S.stored[addr], from |-> l,
                     cache |-> S.cache]
          ELSE IF r.err # NoErr THEN r
          ELSE IF l = "cache" THEN [r EXCEPT !.cache[addr] = r.data]
          ELSE IF l = "integrity"
          THEN IF Digest(r.data) # S.pins[addr]
               THEN [r EXCEPT !.err = ErrIntegrityViolation, !.data = <<>>]
               ELSE r
          ELSE IF l = "encryption"
          THEN LET d == Decrypt(k, r.data)
               IN [r EXCEPT !.err = d.err, !.data = d.data]
          ELSE r

\* ------------------------------------------------------------ input sets
Strs == {"", "k"}
RetryVals == (0 - 1)..MaxRetry
\* "/mnt/fs", "fs" and "/mnt/../fs/".
MountPaths == {<<"/", "mnt", "fs">>, <<"fs">>, <<"/", "mnt", "..", "fs", "">>}

Provider(b, s, r) ==
  [B2AcctId |-> b[1], B2AppKey |-> b[2], B2Bucket |-> b[3], B2Url |-> b[4],
   S3AppId |-> s[1], S3AppKey |-> s[2], S3Bucket |-> s[3], S3Url |-> s[4],
   S3Region |-> s[5], Retry |-> r]

\* Every way of filling the credential fields.
Providers ==
  {Provider(b, s, r) : b \in [1..4 -> Strs], s \in [1..5 -> Strs],
                       r \in RetryVals}

\* The B2 group empty or filled completely, the S3 group empty or filled in
\* its last field only, the retry bound at or above the threshold.
SmallProviders ==
  {Provider(b, s, r) :
     b \in {<<"", "", "", "">>, <<"k", "k", "k", "k">>},
     s \in {<<"", "", "", "", "">>, <<"", "", "", "", "k">>},
     r \in {1, MaxRetry}}

Pointers(S) == {Nil} \cup {<<sp>> : sp \in S}

\* &Client{} with only the storage provider parsed.
ZeroClient(p) ==
  [DataDir |-> EmptyPath, StorageProvider |-> p, MaxWALSize |-> 0,
   CacheSize |-> 0, Password |-> "", NumPtrs |-> 0, DataSize |-> 0]

Clients ==
  [DataDir : {EmptyPath, <<"/", "data", "..", "var">>},
   StorageProvider : Pointers(SmallProviders),
   MaxWALSize : {0, 4},
   CacheSize : {CacheDisabled, 0, 8},
   Password : {"", "pw"},
   NumPtrs : {0, 3},
   DataSize : {0, 16}]

IOClients ==
  {c \in Clients :
     /\ c.Password = "pw" /\ c.DataDir # EmptyPath /\ c.MaxWALSize # 0
     /\ c.CacheSize # 0 /\ c.NumPtrs # 0 /\ c.DataSize # 0
     /\ c.StorageProvider # Nil
     /\ c.StorageProvider[1].Retry = MaxRetry
     /\ hasB2(c.StorageProvider[1]) /\ ~hasS3(c.StorageProvider[1])}

FailingSets == {F \in SUBSET Ctors : Cardinality(F) <= MaxFailures}

\* What a caller that reads and writes blocks runs Client.FS with: one mount
\* path, and the WAL constructor as the one that may fail.
IOMountPaths == {<<"/", "mnt", "fs">>}
IOFailingSets == {{}, {"NewLocalWAL"}}

\* ----------------------------------------------------------- state machine
NoRet == [fs |-> Nil, err |-> NoErr, calls |-> <<>>]
NoRead == [addr |-> 0, err |-> NoErr, data |-> <<>>, from |-> ""]
NoBlocks == [a \in Addrs |-> <<>>]

\* The record of what the layers and stores hold.
Held ==
  [buf |-> buf, cache |-> cache, wal |-> wal, stored |-> stored,
   pins |-> pins, written |-> written]

InitWith(c) ==
  /\ cfg = c
  /\ before = c
  /\ ret = NoRet
  /\ runs = 0
  /\ op = "init"
  /\ buf = NoBlocks
  /\ cache = NoBlocks
  /\ wal = NoBlocks
  /\ stored = NoBlocks
  /\ pins = [a \in Addrs |-> 0]
  /\ written = NoBlocks
  /\ plain = NoBlocks
  /\ rd = NoRead

Init == \E c \in Clients : InitWith(c)
InitStore == \E p \in Pointers(Providers) : InitWith(ZeroClient(p))
InitIO == \E c \in IOClients : InitWith(c)

\* One run of c.FS(mountPath) and what the caller holds from then on: the
\* buffer and the cache of a new handle are empty, the WAL directory, the
\* pin file and the backend are where they were.
FSStep(mountPath, failing) ==
  /\ LET r == FS(cfg, mountPath, failing)
     IN /\ cfg' = r.c
        /\ ret' = [fs |-> r.fs, err |-> r.err, calls |-> r.calls]
  /\ before' = cfg
  /\ runs' = runs + 1
  /\ op' = "FS"
  /\ buf' = NoBlocks
  /\ cache' = NoBlocks
  /\ rd' = NoRead
  /\ UNCHANGED <<wal, stored, pins, written, plain>>

\* A caller runs c.FS(mountPath).
CallFS ==
  /\ runs < MaxRuns
  /\ \E mountPath \in MountPaths, failing \in FailingSets :
       FSStep(mountPath, failing)

\* A caller that reads and writes blocks runs c.FS(mountPath) again.
Reopen ==
  /\ runs < MaxRuns
  /\ \E mountPath \in IOMountPaths, failing \in IOFailingSets :
       FSStep(mountPath, failing)

\* A caller runs c.StorageProvider.Store().
CallStore ==
  /\ runs < MaxRuns
  /\ \E failing \in FailingSets :
       LET r == Store(cfg.StorageProvider, failing)
       IN ret' = [fs |-> r.out, err |-> r.err, calls |-> r.calls]
  /\ before' = cfg
  /\ runs' = runs + 1
  /\ op' = "Store"
  /\ UNCHANGED <<cfg, rd>>
  /\ UNCHANGED io

HasHandle == ret.fs # Nil

\* The layers and stores take what S says.
Hold(S) ==
  /\ buf' = S.buf
  /\ cache' = S.cache
  /\ wal' = S.wal
  /\ stored' = S.stored
  /\ pins' = S.pins
  /\ written' = S.written

\* A block is written through the composed handle.
WriteBlock ==
  /\ HasHandle
  /\ \E a \in Addrs, data \in Blocks :
       /\ Hold(WriteDown(ret.fs, DeriveKey(cfg.Password), a, data, Held))
       /\ plain' = [plain EXCEPT ![a] = data]
  /\ rd' = NoRead
  /\ op' = "Write"
  /\ UNCHANGED <<cfg, before, ret, runs>>

\* The buffering layer passes a block it holds to the layers beneath it.
Flush ==
  /\ HasHandle
  /\ \E a \in Addrs :
       /\ buf[a] # <<>>
       /\ Hold(WriteDown(Below("buffered", ret.fs), DeriveKey(cfg.Password),
                          a, buf[a], [Held EXCEPT !.buf[a] = <<>>]))
  /\ rd' = NoRead
  /\ op' = "Flush"
  /\ UNCHANGED <<cfg, before, ret, runs, plain>>

\* The WAL drains a block it holds to the backend.
Drain ==
  /\ HasHandle
  /\ \E a \in Addrs :
       /\ wal[a] # <<>>
       /\ Hold(WriteDown(Below("wal", ret.fs), DeriveKey(cfg.Password),
                          a, wal[a], [Held EXCEPT !.wal[a] = <<>>]))
  /\ rd' = NoRead
  /\ op' = "Drain"
  /\ UNCHANGED <<cfg, before, ret, runs, plain>>

\* One byte of a block that the backend stores as it was written is
\* modified behind the handle's back.
Tamper ==
  /\ \E a \in Addrs :
       /\ stored[a] # <<>> /\ stored[a] = written[a]
       /\ \E i \in 1..Len(stored[a]), v \in Bytes :
            /\ v # stored[a][i]
            /\ stored' = [stored EXCEPT ![a][i] = v]
  /\ rd' = NoRead
  /\ op' = "Tamper"
  /\ UNCHANGED <<cfg, before, ret, runs, buf, cache, wal, pins, written,
                 plain>>

\* A block is read through the composed handle.
ReadBlock ==
  /\ HasHandle
  /\ \E a \in Addrs :
       LET r == ReadUp(ret.fs, DeriveKey(cfg.Password), a, Held)
       IN /\ rd' = [addr |-> a, err |-> r.err, data |-> r.data,
                    from |-> r.from]
          /\ cache' = r.cache
  /\ op' = "Read"
  /\ UNCHANGED <<cfg, before, ret, runs, buf, wal, stored, pins, written,
                 plain>>

Next == CallFS
NextStore == CallStore
NextIO == Reopen \/ WriteBlock \/ Flush \/ Drain \/ Tamper \/ ReadBlock

Spec == Init /\ [][Next]_vars
SpecStore == InitStore /\ [][NextStore]_vars
SpecIO == InitIO /\ [][NextIO]_vars

\* ------------------------------------------------------------ properties
\* What the claims speak about, stated on the record a call leaves behind
\* and independently of the operators above.
B2Fields == {"B2AcctId", "B2AppKey", "B2Bucket", "B2Url"}
S3Fields == {"S3AppId", "S3AppKey", "S3Bucket", "S3Url", "S3Region"}
AnySet(sp, fields) == \E f \in fields : sp[f] # ""

Invoked(fn) == \E i \in 1..Len(ret.calls) : ret.calls[i].fn = fn
Succeeded(fn) ==
  \E i \in 1..Len(ret.calls) : ret.calls[i].fn = fn /\ ret.calls[i].ok
AllSucceeded == \A i \in 1..Len(ret.calls) : ret.calls[i].ok
Layers(h) == {h[i] : i \in 1..Len(h)}
SecurityCtors == {"WithIntegrity", "WithEncryption", "NewBlockFilesystem"}

\* C1 as stated: with an empty password Client.FS returns the
\* missing-password error and has invoked no constructor before it.
C1_Original ==
  (op = "FS" /\ before.Password = "")
    => (ret.err = ErrNoPassword /\ ret.calls = <<>>)

\* C1 as amended: with an empty password Client.FS never returns a handle
\* and never invokes WithIntegrity, WithEncryption or NewBlockFilesystem;
\* it returns the missing-password error exactly when the backend
\* constructor, NewRetry (bound > 1), NewLocalWAL and NewCache (cache
\* enabled) were all invoked first and succeeded; otherwise it returns the
\* error of the earlier step that failed.
C1_PasswordCheckedAfterStorage ==
  (op = "FS" /\ before.Password = "") =>
    /\ ret.fs = Nil /\ ret.err # NoErr
    /\ \A fn \in SecurityCtors : ~Invoked(fn)
    /\ (ret.err = ErrNoPassword) <=> (AllSucceeded /\ Succeeded("NewLocalWAL"))
    /\ (ret.err = ErrNoPassword) =>
         /\ Succeeded("NewB2") \/ Succeeded("NewS3")
         /\ (before.StorageProvider[1].Retry > 1) => Succeeded("NewRetry")
         /\ (before.CacheSize # 0 - 1) => Succeeded("NewCache")

C1_Witness ==
  /\ op = "FS" /\ before.Password = "" /\ ret.err = ErrNoPassword
  /\ Succeeded("NewB2") /\ Succeeded("NewRetry") /\ Succeeded("NewCache")

\* C2: when at least one B2 field and at least one S3 field are set, Store
\* returns the ambiguous-provider error and invokes no constructor.
C2_AmbiguousProvider ==
  (/\ op = "Store" /\ cfg.StorageProvider # Nil
   /\ AnySet(cfg.StorageProvider[1], B2Fields)
   /\ AnySet(cfg.StorageProvider[1], S3Fields))
    => (ret.err = ErrAmbiguous /\ ret.fs = Nil /\ ret.calls = <<>>)

C2_Witness ==
  /\ op = "Store" /\ cfg.StorageProvider # Nil
  /\ cfg.StorageProvider[1].B2AcctId = ""
  /\ cfg.StorageProvider[1].B2Bucket # ""
  /\ cfg.StorageProvider[1].S3AppId = ""
  /\ cfg.StorageProvider[1].S3Url = ""
  /\ cfg.StorageProvider[1].S3Region # ""
  /\ ret.err = ErrAmbiguous

\* C3: when the provider record is nil or none of its credential fields is
\* set, Store returns the no-provider error and invokes no constructor,
\* whatever the retry bound.
C3_NoProvider ==
  (/\ op = "Store"
   /\ \/ cfg.StorageProvider = Nil
      \/ /\ ~AnySet(cfg.StorageProvider[1], B2Fields)
         /\ ~AnySet(cfg.StorageProvider[1], S3Fields))
    => (ret.err = ErrNoProvider /\ ret.fs = Nil /\ ret.calls = <<>>)

C3_Witness ==
  /\ op = "Store" /\ cfg.StorageProvider # Nil
  /\ ~AnySet(cfg.StorageProvider[1], B2Fields \cup S3Fields)
  /\ cfg.StorageProvider[1].Retry > 1
  /\ ret.err = ErrNoProvider

\* The chain the claim C4 prescribes for a configuration, outermost first.
ExpectedChain(c) ==
  <<"fs", "app", "encryption", "integrity", "block", "buffered">>
    \o (IF c.CacheSize # 0 - 1 THEN <<"cache">> ELSE <<>>)
    \o <<"wal">>
    \o (IF c.StorageProvider[1].Retry > 1 THEN <<"retry">> ELSE <<>>)
    \o (IF AnySet(c.StorageProvider[1], B2Fields) THEN <<"b2">> ELSE <<"s3">>)

\* C4: a handle returned by Client.FS is exactly filesystem, application
\* storage, encryption, integrity, block framer, buffering, cache (if
\* enabled), WAL, retry (if the bound is > 1), backend; no layer twice.
C4_LayerOrder ==
  (op = "FS" /\ ret.fs # Nil) =>
    /\ ret.fs = ExpectedChain(before)
    /\ \A i, j \in 1..Len(ret.fs) : ret.fs[i] = ret.fs[j] => i = j

C4_Witness ==
  /\ op = "FS" /\ ret.fs # Nil /\ Len(ret.fs) = 10
  /\ ret.fs[3] = "encryption" /\ ret.fs[4] = "integrity"

\* Number of positions at which two byte strings of equal length differ.
DiffCount(x, y) == Cardinality({i \in 1..Len(x) : x[i] # y[i]})

\* The backend holds the block as the handle wrote it but for one byte.
Tampered(a) ==
  /\ written[a] # <<>> /\ Len(stored[a]) = Len(written[a])
  /\ DiffCount(stored[a], written[a]) = 1

\* C5 as stated: a read of a block that was written through the handle and
\* of which one stored byte was then modified fails with IntegrityViolation.
C5_Original ==
  (op = "Read" /\ Tampered(rd.addr)) => rd.err = ErrIntegrityViolation

\* C5: such a read fails with IntegrityViolation whenever it is served by
\* the backend, as it is when the handle has no cache layer and neither its
\* buffering layer nor the WAL holds the block; when the buffering layer,
\* the cache or the WAL still holds the block the read is served from
\* there, and then it returns the bytes last written or fails with
\* IntegrityViolation; it never fails with DecryptionFailed and never
\* returns other data.
C5_TamperDetectedAtBackend ==
  (op = "Read" /\ Tampered(rd.addr)) =>
    /\ rd.err \in {NoErr, ErrIntegrityViolation}
    /\ IsBackend(rd.from) => rd.err = ErrIntegrityViolation
    /\ (rd.err = NoErr) =>
         /\ rd.data = plain[rd.addr]
         /\ rd.from \in {"buffered", "cache", "wal"}
    /\ ("cache" \notin Layers(ret.fs) /\ buf[rd.addr] = <<>>
          /\ wal[rd.addr] = <<>>) => rd.err = ErrIntegrityViolation

C5_Witness ==
  /\ op = "Read" /\ Tampered(rd.addr)
  /\ stored[rd.addr][BlockLen + 1] # written[rd.addr][BlockLen + 1]
  /\ IsBackend(rd.from) /\ "cache" \in Layers(ret.fs)
  /\ rd.err = ErrIntegrityViolation

\* C6: the cache constructor is invoked, on the WAL store and with the
\* configured capacity (32*1024 for 0), exactly when the cache size is not
\* -1; a returned handle has a cache layer exactly then, and with -1 the
\* buffering layer sits directly on the WAL.
C6_CacheSentinel ==
  (op = "FS") =>
    /\ (before.CacheSize = 0 - 1) => ~Invoked("NewCache")
    /\ (before.CacheSize # 0 - 1 /\ Succeeded("NewLocalWAL"))
         => Invoked("NewCache")
    /\ \A i \in 1..Len(ret.calls) :
         ret.calls[i].fn = "NewCache" =>
           /\ ret.calls[i].ns =
                <<IF before.CacheSize = 0 THEN 32 * 1024
                  ELSE before.CacheSize>>
           /\ Head(ret.calls[i].inner) = "wal"
    /\ (ret.fs # Nil) =>
         /\ ("cache" \in Layers(ret.fs)) <=> (before.CacheSize # 0 - 1)
         /\ \A i \in 1..(Len(ret.fs) - 1) :
              ret.fs[i] = "buffered" =>
                ret.fs[i + 1] =
                  (IF before.CacheSize = 0 - 1 THEN "wal" ELSE "cache")

C6_Witness ==
  /\ op = "FS" /\ ret.fs # Nil /\ before.CacheSize = 0
  /\ "cache" \in Layers(ret.fs)

\* C7: a backend returned by Store is wrapped by the retry decorator, built
\* with the configured bound, exactly when the bound is greater than 1;
\* otherwise NewRetry is not invoked and the raw backend is returned.
C7_RetryBound ==
  (op = "Store") =>
    /\ (cfg.StorageProvider # Nil /\ cfg.StorageProvider[1].Retry <= 1)
         => ~Invoked("NewRetry")
    /\ (cfg.StorageProvider = Nil) => ~Invoked("NewRetry")
    /\ (ret.err = NoErr) =>
         /\ ret.fs # Nil
         /\ (Head(ret.fs) = "retry") <=> (cfg.StorageProvider[1].Retry > 1)
         /\ (cfg.StorageProvider[1].Retry > 1) =>
              /\ Len(ret.fs) = 2 /\ ret.fs[2] \in {"b2", "s3"}
              /\ ret.calls[Len(ret.calls)].fn = "NewRetry"
              /\ ret.calls[Len(ret.calls)].ns = <<cfg.StorageProvider[1].Retry>>
         /\ (cfg.StorageProvider[1].Retry <= 1) => ret.fs \in {<<"b2">>, <<"s3">>}

C7_Witness ==
  /\ op = "Store" /\ ret.err = NoErr
  /\ cfg.StorageProvider[1].Retry = 1 /\ ret.fs = <<"b2">>

Defaultable == {"MaxWALSize", "CacheSize", "NumPtrs", "DataSize"}
FullyDefaulted(c) ==
  c.DataDir # EmptyPath /\ \A f \in Defaultable : c[f] # 0

\* The constructors a run invoked and how each ended.
Path(r) == [i \in 1..Len(r.calls) |-> <<r.calls[i].fn, r.calls[i].ok>>]

\* A run of Client.FS never changes a field that is already set, a run that
\* reaches the filesystem step leaves all five fields set, and a run on a
\* configuration with all five fields set changes nothing.
DefaultsKept ==
  (op = "FS") =>
    /\ before.DataDir # EmptyPath => cfg.DataDir = before.DataDir
    /\ \A f \in Defaultable : before[f] # 0 => cfg[f] = before[f]
    /\ Invoked("NewBlockFilesystem") => FullyDefaulted(cfg)
    /\ FullyDefaulted(before) => cfg = before

\* A run of Client.FS that follows a run which applied all five defaults,
\* or which took the same way through the constructors, changes no field.
SecondRunChangesNothing ==
  (/\ op = "FS" /\ op' = "FS"
   /\ \/ Invoked("NewBlockFilesystem")
      \/ Path(ret') = Path(ret) /\ ret'.err = ret.err)
    => cfg' = cfg

\* C8: defaulting is idempotent: after one run of Client.FS has applied its
\* defaults (DataDir, MaxWALSize, CacheSize, NumPtrs, DataSize) a second
\* run on the resulting configuration changes no field.
C8_Idempotent == []DefaultsKept /\ [][SecondRunChangesNothing]_vars

C8_Witness ==
  /\ op = "FS" /\ runs >= 2 /\ cfg = before
  /\ cfg.MaxWALSize = 64 * 512 /\ cfg.CacheSize = 32 * 1024
  /\ cfg.NumPtrs = 12 /\ cfg.DataSize = 32 * 1024
  /\ cfg.DataDir = <<"/", "mnt", ".utahfs">>

\* C9 as stated: Client.FS leaves the caller's record unchanged.
C9_Original == (op = "FS") => cfg = before

\* The value Client.FS leaves in a numeric field: its default when the field
\* was zero and the defaulting step was reached.
Left(old, reached, default) == IF old = 0 /\ reached THEN default ELSE old

\* C9 as amended: Client.FS writes its defaults into the caller's record as
\* it goes: DataDir always, MaxWALSize once Store succeeded, CacheSize once
\* NewLocalWAL succeeded, NumPtrs and DataSize once encryption succeeded; a
\* failed run leaves exactly these set, and the password, the provider and
\* every field that was already set are never changed.
C9_DefaultsWrittenInPlace ==
  (op = "FS") =>
    /\ cfg.Password = before.Password
    /\ cfg.StorageProvider = before.StorageProvider
    /\ IF before.DataDir # EmptyPath THEN cfg.DataDir = before.DataDir
       ELSE cfg.DataDir \in {<<"/", "mnt", ".utahfs">>, <<".utahfs">>,
                             <<"/", "fs", ".utahfs">>}
    /\ cfg.MaxWALSize =
         Left(before.MaxWALSize, Invoked("NewLocalWAL"), 64 * 512)
    /\ cfg.CacheSize =
         Left(before.CacheSize, Succeeded("NewLocalWAL"), 32 * 1024)
    /\ cfg.NumPtrs =
         Left(before.NumPtrs, Invoked("NewBlockFilesystem"), 12)
    /\ cfg.DataSize =
         Left(before.DataSize, Invoked("NewBlockFilesystem"), 32 * 1024)
    /\ Invoked("NewBlockFilesystem") <=> Succeeded("WithEncryption")

C9_Witness ==
  /\ op = "FS" /\ ret.err = ErrNoPassword
  /\ before.DataDir = EmptyPath /\ cfg.DataDir # EmptyPath
  /\ before.MaxWALSize = 0 /\ cfg.MaxWALSize = 64 * 512
  /\ before.NumPtrs = 0 /\ cfg.NumPtrs = 0

\* C10: a failing step ends Client.FS: the failed constructor is the last
\* one invoked, its error is what is returned, the handle is nil; a handle
\* is returned only with a nil error after every invoked step succeeded.
C10_FailClosed ==
  (op = "FS") =>
    /\ \A i \in 1..Len(ret.calls) :
         ~ret.calls[i].ok =>
           /\ i = Len(ret.calls)
           /\ ret.err = CtorErr(ret.calls[i].fn)
    /\ (ret.err # NoErr) => ret.fs = Nil
    /\ (ret.fs # Nil) =>
         /\ ret.err = NoErr /\ AllSucceeded
         /\ Succeeded("NewLocalWAL") /\ Succeeded("WithIntegrity")
         /\ Succeeded("WithEncryption") /\ Succeeded("NewBlockFilesystem")
    /\ (ret.err \in {ErrNoProvider, ErrAmbiguous}) => ret.calls = <<>>
    /\ (ret.err = ErrNoPassword) =>
         (AllSucceeded /\ \A fn \in SecurityCtors : ~Invoked(fn))
    /\ (ret.err = NoErr) => ret.fs # Nil

C10_Witness ==
  /\ op = "FS" /\ Len(ret.calls) >= 3
  /\ ~ret.calls[Len(ret.calls)].ok
  /\ ret.calls[Len(ret.calls)].fn = "NewCache"
  /\ ret.err = CtorErr("NewCache") /\ ret.fs = Nil

====
